---------------------------- MODULE Spec2Model ----------------------------
(***************************************************************************)
(* libinput-gestures-qt: the configuration engine of main.py (read, write, *)
(* normalise, repair, parse, sort, upsert, delete, install defaults) and   *)
(* the handlers of the two windows that call it.                           *)
(*                                                                         *)
(* Text.  A Python str is a sequence of symbols.  A symbol is one          *)
(* character (" ", "\t", "\n", "\"", "#", "+", a digit, "e", "z") or one   *)
(* whole word of the file format ("gesture", "swipe", "left", "_up", ...). *)
(* No symbol is a prefix of another symbol and no word can be spelled with *)
(* other symbols, so str.startswith, ==, <, `in` and str.split on the      *)
(* characters agree with the same operations on the symbols.               *)
(* "swipe_threshold" is "swipe","_threshold"; "left_up" is "left","_up";   *)
(* "invokeShortcut" is "in","vokeShortcut".  The text of a comment line of *)
(* kde_defaults is one symbol: it holds no tab and no two adjacent spaces  *)
(* and no operation looks inside a comment.  The names of keys ("Ctrl",    *)
(* "PgDown", "super", ...) are words too, "F12" is "F","1","2", and        *)
(* str.lower maps each symbol to its lower-case spelling.  "q", the one    *)
(* symbol that begins a word ("qdbus"), occurs in key sequences only.      *)
(***************************************************************************)
EXTENDS Integers, Sequences, FiniteSets, TLC

\* ------------------------------------------------------------------ bounds
\* Longest file, in lines, an upsert may leave (the file itself is unbounded).
MaxLines == 3
\* Operations run after the start.
MaxOps == 2

\* ------------------------------------------------------------ str helpers
SP == " "
TAB == "\t"
NL == "\n"
QUOTE == "\""

\* Characters and words in ASCII order: the order Python compares str by.
SymOrder ==
  << TAB, NL, SP, QUOTE, "#", "+", ",", "/component/kwin", "0", "1", "2",
     "3", "4", "5", "6", "7", "8", "9", "Alt", "Ctrl", "Desktop", "Down",
     "Expose", "F", "Left", "Maximize", "Meta", "Minimize", "Next",
     "Page_Down", "Page_Up", "PgDown", "PgUp", "Previous", "Q", "Right",
     "Shift", "ShowDesktopGrid", "Switch", "Up", "Window", "_down",
     "_threshold", "_up", "alt", "anticlockwise", "clockwise", "ctrl",
     "device", "down", "e", "f", "gesture", "in", "key", "left", "meta",
     "org.kde.kglobalaccel", "out", "pgdown", "pgup", "pinch", "q", "qdbus",
     "right", "shift", "super", "swipe", "to", "up", "vokeShortcut",
     "xdotool", "z" >>

Rank(c) == CHOOSE i \in 1..Len(SymOrder) : SymOrder[i] = c

\* Python a < b on str.
RECURSIVE StrLess(_, _)
StrLess(a, b) ==
  IF a = <<>> THEN b # <<>>
  ELSE IF b = <<>> THEN FALSE
  ELSE IF Head(a) = Head(b) THEN StrLess(Tail(a), Tail(b))
  ELSE Rank(Head(a)) < Rank(Head(b))

\* s[i] with Python's 0-based index.
At(s, i) == s[i + 1]

\* s.startswith(p)
StartsWith(s, p) == Len(p) <= Len(s) /\ SubSeq(s, 1, Len(p)) = p

\* s.endswith(c) for a one-character c
EndsWith(s, c) == s # <<>> /\ s[Len(s)] = c

\* c in s, for a word or character c
Contains(s, c) == \E i \in 1..Len(s) : s[i] = c

\* ''.join(parts)
RECURSIVE Concat(_)
Concat(parts) ==
  LET n == Len(parts)
      half == n \div 2
  IN IF n = 0 THEN <<>>
     ELSE IF n = 1 THEN parts[1]
     ELSE Concat(SubSeq(parts, 1, half)) \o Concat(SubSeq(parts, half + 1, n))

\* sep.join(parts)
RECURSIVE Join(_, _)
Join(parts, sep) ==
  IF parts = <<>> THEN <<>>
  ELSE IF Len(parts) = 1 THEN Head(parts)
  ELSE Head(parts) \o sep \o Join(Tail(parts), sep)

\* s.replace(a, b) for one-character a
Replace(s, a, b) == [i \in 1..Len(s) |-> IF s[i] = a THEN b ELSE s[i]]

\* s.replace(a, '') for one-character a
RECURSIVE Remove(_, _)
Remove(s, a) ==
  IF s = <<>> THEN <<>>
  ELSE IF Head(s) = a THEN Remove(Tail(s), a)
  ELSE <<Head(s)>> \o Remove(Tail(s), a)

IsSpace(c) == c \in {SP, TAB, NL}

\* s.split(): the maximal runs of non-whitespace characters.
RECURSIVE SplitFrom(_, _, _)
SplitFrom(s, cur, acc) ==
  IF s = <<>> THEN (IF cur = <<>> THEN acc ELSE Append(acc, cur))
  ELSE IF IsSpace(Head(s))
       THEN SplitFrom(Tail(s), <<>>, IF cur = <<>> THEN acc ELSE Append(acc, cur))
       ELSE SplitFrom(Tail(s), Append(cur, Head(s)), acc)

Split(s) == SplitFrom(s, <<>>, <<>>)

\* Index of the first c in s at or after i, 0 when there is none.
RECURSIVE IndexFrom(_, _, _)
IndexFrom(s, c, i) ==
  IF i > Len(s) THEN 0 ELSE IF s[i] = c THEN i ELSE IndexFrom(s, c, i + 1)

FirstIndex(s, c) == IndexFrom(s, c, 1)

\* file.readlines(): the lines of a text, each with its "\n" (the last line
\* has none when the text does not end in "\n").
RECURSIVE LinesFrom(_, _)
LinesFrom(s, i) ==
  LET n == IndexFrom(s, NL, i)
  IN IF i > Len(s) THEN <<>>
     ELSE IF n = 0 THEN << SubSeq(s, i, Len(s)) >>
     ELSE << SubSeq(s, i, n) >> \o LinesFrom(s, n + 1)

ReadLines(s) == LinesFrom(s, 1)

\* str(n) for n >= 0
Digits == << "0", "1", "2", "3", "4", "5", "6", "7", "8", "9" >>

RECURSIVE Str(_)
Str(n) == IF n < 10 THEN << Digits[n + 1] >>
          ELSE Str(n \div 10) \o << Digits[(n % 10) + 1] >>

\* re.sub('(c)+', ' ', s): every maximal run of the character c becomes " ".
SubRuns(s, c) ==
  LET keep == { i \in 1..Len(s) : s[i] # c \/ i = 1 \/ s[i - 1] # c }
      nth(k) == CHOOSE i \in keep : Cardinality({ j \in keep : j < i }) = k - 1
  IN [k \in 1..Cardinality(keep) |-> IF s[nth(k)] = c THEN SP ELSE s[nth(k)]]

\* re.findall('"(.*?)"', line): the contents of the successive quoted
\* substrings, left to right, each from a quote to the next quote.  A line
\* holds "\n" only as its last character, so '.' meets none between quotes.
RECURSIVE FindQuoted(_)
FindQuoted(s) ==
  LET open == FirstIndex(s, QUOTE)
      rest == SubSeq(s, open + 1, Len(s))
      close == FirstIndex(rest, QUOTE)
  IN IF open = 0 \/ close = 0 THEN <<>>
     ELSE <<SubSeq(rest, 1, close - 1)>>
            \o FindQuoted(SubSeq(rest, close + 1, Len(rest)))

\* --------------------------------------------------------- mapping tables
\* 'gesture <type> <direction>' as main.py spells it, one space between words.
Phrase(type, direction) == << "gesture", SP, type, SP >> \o direction

\* actions_mapping: label of the editor's menu -> phrase written to the file.
actions_mapping ==
  ("Swipe Up" :> Phrase("swipe", <<"up">>)) @@
  ("Swipe Down" :> Phrase("swipe", <<"down">>)) @@
  ("Swipe Left" :> Phrase("swipe", <<"left">>)) @@
  ("Swipe LeftUp" :> Phrase("swipe", <<"left", "_up">>)) @@
  ("Swipe LeftDown" :> << "gesture", SP, "swipe", SP, SP, "left", "_down" >>) @@
  ("Swipe Right" :> Phrase("swipe", <<"right">>)) @@
  ("Swipe RightUp" :> Phrase("swipe", <<"right", "_up">>)) @@
  ("Swipe RightDown" :> Phrase("swipe", <<"right", "_down">>)) @@
  ("Pinch In" :> Phrase("pinch", <<"in">>)) @@
  ("Pinch Out" :> Phrase("pinch", <<"out">>)) @@
  ("Pinch Clockwise" :> Phrase("pinch", <<"clockwise">>)) @@
  ("Pinch Anticlockwise" :> Phrase("pinch", <<"anticlockwise">>))

\* reversed_mapping: phrase read from the file -> label shown.
reversed_mapping ==
  (Phrase("swipe", <<"up">>) :> "Swipe Up") @@
  (Phrase("swipe", <<"down">>) :> "Swipe Down") @@
  (Phrase("swipe", <<"left">>) :> "Swipe Left") @@
  (Phrase("swipe", <<"left", "_up">>) :> "Swipe LeftUp") @@
  (Phrase("swipe", <<"left", "_down">>) :> "Swipe LeftDown") @@
  (Phrase("swipe", <<"right">>) :> "Swipe Right") @@
  (Phrase("swipe", <<"right", "_up">>) :> "Swipe RightUp") @@
  (Phrase("swipe", <<"right", "_down">>) :> "Swipe RightDown") @@
  (Phrase("pinch", <<"in">>) :> "Pinch In") @@
  (Phrase("pinch", <<"out">>) :> "Pinch Out") @@
  (Phrase("pinch", <<"clockwise">>) :> "Pinch Clockwise") @@
  (Phrase("pinch", <<"anticlockwise">>) :> "Pinch Anticlockwise")

Labels == DOMAIN actions_mapping

\* The labels, and the three action kinds, in the order Python compares them.
LabelOrder ==
  << "Pinch Anticlockwise", "Pinch Clockwise", "Pinch In", "Pinch Out",
     "Swipe Down", "Swipe Left", "Swipe LeftDown", "Swipe LeftUp",
     "Swipe Right", "Swipe RightDown", "Swipe RightUp", "Swipe Up" >>

KindOrder == << "Command", "Keyboard shortcut", "Plasma action" >>

IndexIn(order, x) == CHOOSE i \in 1..Len(order) : order[i] = x

\* ------------------------------------------------------------ file access
\* A file: whether it exists, and its text.
NoFile == [exists |-> FALSE, text |-> <<>>]
File(text) == [exists |-> TRUE, text |-> text]

\* Iterating a str yields its characters.
Chars(s) == [i \in 1..Len(s) |-> << s[i] >>]

\* read_config(): the lines of the file, '' when there is no file.
read_config(c) == IF c.exists THEN ReadLines(c.text) ELSE <<>>

\* write_config(new_conf): the file holds ''.join(new_conf).
write_config(new_conf) == File(Concat(new_conf))

\* write_defaults(defaults): the backup, the config file and the value returned.
write_defaults_swapped(c, defaults) ==
  [old |-> File(defaults), conf |-> File(defaults), ret |-> defaults]

write_defaults(c, defaults) ==
  LET old_conf == read_config(c)
  IN [old |-> File(Concat(old_conf)), conf |-> File(defaults), ret |-> defaults]

\* ------------------------------------------------------------- fix_config
gestureTok == << "gesture" >>
deviceTok == << "device" >>
thresholdTok == << "swipe", "_threshold" >>
xdotoolTok == << "xdotool" >>
keyTok == << "key" >>

\* fix_config without the count of the tokens of an xdotool line.
FixLineAnyLength(line) ==
  IF StartsWith(line, << "#" >>) \/ line = << NL >> THEN "append"
  ELSE LET splitted == Split(Replace(line, TAB, SP)) IN
    IF Len(splitted) < 1 THEN "raise"
    ELSE IF At(splitted, 0) \in {gestureTok, deviceTok, thresholdTok} THEN
      IF At(splitted, 0) = gestureTok THEN
        IF Len(splitted) < 5 THEN "raise"
        ELSE IF At(splitted, 4) = xdotoolTok THEN
          IF Len(splitted) < 6 THEN "raise"
          ELSE IF At(splitted, 5) = keyTok THEN "append"
          ELSE "skip"
        ELSE IF Contains(At(splitted, 4), "qdbus") THEN
          IF EndsWith(splitted[Len(splitted)], QUOTE) THEN "append" ELSE "skip"
        ELSE "append"
      ELSE IF Len(splitted) = 2 THEN "append" ELSE "skip"
    ELSE "skip"

\* One pass of the loop body of fix_config: "append" (the line is kept),
\* "skip" (it is dropped) or "raise" (an index is out of range).
FixLine(line) ==
  IF StartsWith(line, << "#" >>) \/ line = << NL >> THEN "append"
  ELSE LET splitted == Split(Replace(line, TAB, SP)) IN
    IF Len(splitted) < 1 THEN "raise"
    ELSE IF At(splitted, 0) \in {gestureTok, deviceTok, thresholdTok} THEN
      IF At(splitted, 0) = gestureTok THEN
        IF Len(splitted) < 5 THEN "raise"
        ELSE IF At(splitted, 4) = xdotoolTok THEN
          IF Len(splitted) < 6 THEN "raise"
          ELSE IF At(splitted, 5) = keyTok /\ Len(splitted) = 7 THEN "append"
          ELSE "skip"
        ELSE IF Contains(At(splitted, 4), "qdbus") THEN
          IF EndsWith(splitted[Len(splitted)], QUOTE) THEN "append" ELSE "skip"
        ELSE "append"
      ELSE IF Len(splitted) = 2 THEN "append" ELSE "skip"
    ELSE "skip"

\* fix_config(): raised, or the file rewritten with the kept lines.
fix_config(c) ==
  LET conf == read_config(c)
      fixed_conf == SelectSeq(conf, LAMBDA line : FixLine(line) = "append")
  IN IF \E i \in 1..Len(conf) : FixLine(conf[i]) = "raise"
     THEN [raised |-> TRUE, conf |-> c]
     ELSE [raised |-> FALSE, conf |-> write_config(Chars(Concat(fixed_conf)))]

\* ----------------------------------------------------------- resub_config
\* The three re.sub calls, in the order of the source.
ResubSpacesFirst(conf) == Replace(SubRuns(SubRuns(conf, SP), TAB), TAB, SP)

Resub(conf) == SubRuns(Replace(SubRuns(conf, TAB), TAB, SP), SP)

resub_config(c) == write_config(Chars(Resub(Concat(read_config(c)))))

\* ---------------------------------------- save_changes / delete_entry, file
\* The line save_changes appends, and the prefix it deletes by.
SavePrefix(action, fingers) == action \o << SP >> \o Str(fingers)

SaveLine(action, fingers, shortcut) ==
  action \o << SP >> \o Str(fingers) \o << SP >> \o shortcut \o << NL >>

\* save_changes, lines 726-732: the file it writes.
save_changes_conf(c, action, fingers, shortcut) ==
  LET conf == read_config(c)
      new_conf == SelectSeq(conf,
                    LAMBDA line : ~StartsWith(line, SavePrefix(action, fingers)))
  IN write_config(Append(new_conf, SaveLine(action, fingers, shortcut)))

\* delete_entry, lines 594-599: the file it writes for a button's name.
delete_entry_conf(c, name) ==
  LET conf == read_config(c)
      new_conf == SelectSeq(conf, LAMBDA line : ~StartsWith(line, name))
  IN write_config(new_conf)

\* ------------------------------------------- prepare_config_for_displaying
\* One entry of the five parallel lists gestures, fingers, shortcuts,
\* buttons, actions (the same index in each).
Row(gesture, fingers, shortcut, button, action) ==
  [gesture |-> gesture, fingers |-> fingers, shortcut |-> shortcut,
   button |-> button, action |-> action]

NoRow == Row("", <<>>, <<>>, <<>>, "")

Raise == [raised |-> TRUE, row |-> NoRow]
Ok(row) == [raised |-> FALSE, row |-> row]

\* The loop body for one line starting with 'gesture': the entry appended, or
\* raised (IndexError of splitted[i] or of findall(...)[0], KeyError of
\* reversed_mapping[...]).
ParseLine(line) ==
  LET splitted == Split(line)
      n == Len(splitted)
      phrase == Join(<< At(splitted, 0), At(splitted, 1), At(splitted, 2) >>, << SP >>)
      button == Join(<< At(splitted, 0), At(splitted, 1), At(splitted, 2),
                        At(splitted, 3) >>, << SP >>)
      found == FindQuoted(line)
  IN IF n < 3 THEN Raise
     ELSE IF phrase \notin DOMAIN reversed_mapping THEN Raise
     ELSE IF n < 5 THEN Raise
     ELSE IF At(splitted, 4) = xdotoolTok /\ n < 6 THEN Raise
     ELSE IF At(splitted, 4) = xdotoolTok /\ At(splitted, 5) = keyTok THEN
       IF n < 7 THEN Raise
       ELSE Ok(Row(reversed_mapping[phrase], At(splitted, 3), At(splitted, 6),
                   button, "Keyboard shortcut"))
     ELSE IF Contains(At(splitted, 4), "qdbus") THEN
       IF found = <<>> THEN Raise
       ELSE IF found[1] # <<>> THEN
         Ok(Row(reversed_mapping[phrase], At(splitted, 3), found[1],
                button, "Plasma action"))
       ELSE
         Ok(Row(reversed_mapping[phrase], At(splitted, 3),
                Remove(splitted[n], QUOTE), button, "Plasma action"))
     ELSE Ok(Row(reversed_mapping[phrase], At(splitted, 3),
                 Join(SubSeq(splitted, 5, n), << SP >>), button, "Command"))

\* prepare_config_for_displaying(): raised, or the entries in file order.
prepare_config_for_displaying(c) ==
  LET conf == read_config(c)
      gestures == SelectSeq(conf, LAMBDA line : StartsWith(line, gestureTok))
  IN IF \E i \in 1..Len(gestures) : ParseLine(gestures[i]).raised
     THEN [raised |-> TRUE, rows |-> <<>>]
     ELSE [raised |-> FALSE,
           rows |-> [i \in 1..Len(gestures) |-> ParseLine(gestures[i]).row]]

\* ------------------------------------------------------------ sort_config
\* The fingers of an entry are the str read from the file (splitted[3]).
FingersLess(a, b) == StrLess(a, b)

\* [el, (fingers, shortcut, button, action)] < [el', (...)] in Python.
RowLess(a, b) ==
  IF a.gesture # b.gesture
    THEN IndexIn(LabelOrder, a.gesture) < IndexIn(LabelOrder, b.gesture)
  ELSE IF a.fingers # b.fingers THEN FingersLess(a.fingers, b.fingers)
  ELSE IF a.shortcut # b.shortcut THEN StrLess(a.shortcut, b.shortcut)
  ELSE IF a.button # b.button THEN StrLess(a.button, b.button)
  ELSE IndexIn(KindOrder, a.action) < IndexIn(KindOrder, b.action)

\* sorted(for_sorting): each entry goes before the first one greater than it.
RECURSIVE InsertRow(_, _)
InsertRow(r, sorted) ==
  IF sorted = <<>> THEN << r >>
  ELSE IF RowLess(r, Head(sorted)) THEN << r >> \o sorted
  ELSE << Head(sorted) >> \o InsertRow(r, Tail(sorted))

RECURSIVE sort_config(_)
sort_config(rows) ==
  IF rows = <<>> THEN <<>>
  ELSE InsertRow(rows[Len(rows)], sort_config(SubSeq(rows, 1, Len(rows) - 1)))

\* ------------------------------------------------------------------ state
VARIABLES
  conf,    \* the file at CONFIG_LOCATION
  old,     \* the file at CONFIG_LOCATION + '.old'
  rows,    \* the five lists of the main window, as sort_config left them
  call,    \* the last operation run: its name, inputs and outcome
  nops,    \* operations run so far
  app,     \* the process: "off", "running", "exited" (sys.exit), "crashed"
  ed       \* the EditGestures window

vars == << conf, old, rows, call, nops, app, ed >>

\* What is recorded of an operation: op, its name; prev, the config file
\* before it; action, fingers, text, its inputs; ret, the value returned;
\* raised, the function whose exception ended it ("" when none did).
\* Of a handler of the main window also: answer, the reply to the handler's
\* own question; failed, whether the try of display_config raised; reply,
\* the reply to 'Fix it?' ("" when not asked); fix, the functions that
\* called fix_config, in order.
Call(op, prev, action, fingers, text, ret, raised) ==
  [op |-> op, prev |-> prev, action |-> action, fingers |-> fingers,
   text |-> text, ret |-> ret, raised |-> raised,
   answer |-> "", failed |-> FALSE, reply |-> "", fix |-> << >>]

NoCall == Call("", NoFile, <<>>, 0, <<>>, <<>>, "")

\* The EditGestures window: open, whether it is shown; label, the text last
\* passed to action_chosen ("" before any); action, fingers, shortcut, the
\* attributes save_changes reads; minimum, the minimum of fingersLine; kind,
\* the input widget drawn last.
Editor(open, label, action, fingers, shortcut, minimum, kind) ==
  [open |-> open, label |-> label, action |-> action, fingers |-> fingers,
   shortcut |-> shortcut, minimum |-> minimum, kind |-> kind]

Closed == Editor(FALSE, "", << >>, 0, << >>, 0, "")

\* ----------------------------------------------------------------- inputs
\* Lines a hand-edited file may hold (without their "\n").
Comment == << "#", "e" >>
Blank == << >>
Spaces == << SP, TAB, SP >>
DeviceOk == << "device", SP, "e" >>
DeviceBare == << "device" >>
ThresholdOk == << "swipe", "_threshold", TAB, "3" >>
Noise == << "e", SP, "z" >>
Up3(rest) == << "gesture", SP, "swipe", SP, "up", SP, "3" >> \o rest
KeyOk == Up3(<< SP, "xdotool", SP, "key", SP, "e" >>)
KeyLong == Up3(<< SP, "xdotool", SP, "key", SP, "e", SP, "z" >>)
KeyMissing == Up3(<< SP, "xdotool", SP, "key" >>)
XdotoolBare == Up3(<< SP, "xdotool" >>)
NoAction == Up3(<< >>)
QdbusOk == Up3(<< SP, "qdbus", SP, "e", SP, QUOTE, "z", QUOTE >>)
QdbusOneQuote == Up3(<< SP, "qdbus", SP, "e", QUOTE >>)
QdbusNoQuote == Up3(<< SP, "qdbus", SP, "e" >>)
Tabbed == << "gesture", TAB, "swipe", SP, SP, "up", SP, "4", TAB, "e", SP, SP, "z" >>
Up30 == << "gesture", SP, "swipe", SP, "up", SP, "3", "0", SP, "e" >>
LeftDown3 == << "gesture", SP, "swipe", SP, "left", "_down", SP, "3", SP, "e" >>
BadDirection == << "gesture", SP, "swipe", SP, "e", SP, "3", SP, "e" >>
PinchIn2 == << "gesture", SP, "pinch", SP, "in", SP, "2", SP, "z" >>

LinePool ==
  { Comment, Blank, Spaces, DeviceOk, DeviceBare, ThresholdOk, Noise, KeyOk,
    KeyLong, KeyMissing, XdotoolBare, NoAction, QdbusOk, QdbusOneQuote,
    QdbusNoQuote, Tabbed, Up30, LeftDown3, BadDirection, PinchIn2 }

\* The text of a file holding the given lines, each ended by "\n".
Text(lines) == Concat([i \in 1..Len(lines) |-> lines[i] \o << NL >>])

\* The files the engine starts from: no file, an empty one, every line of
\* the pool alone, some pairs of them, and a file with no final "\n".
InitFiles ==
  { NoFile, File(<< >>), File(KeyOk) }
    \cup { File(Text(<< l >>)) : l \in LinePool }
    \cup { File(Text(ls)) : ls \in
             { << Comment, KeyOk >>, << Up30, KeyOk >>, << KeyOk, Up30 >>,
               << Tabbed, Up30 >>, << Up30, Tabbed >>, << QdbusOk, PinchIn2 >>,
               << PinchIn2, KeyOk >>, << KeyOk, QdbusOk >>,
               << NoAction, Comment >>, << Spaces, DeviceOk >>,
               << QdbusOneQuote, KeyLong >>, << LeftDown3, Blank >> } }

\* Inputs of upsert: five labels with three fingers and a command, and two
\* of them with a keyboard shortcut, one for thirty fingers.
UpsertInputs ==
  { << l, 3, << "e" >> >> :
      l \in { "Swipe Up", "Swipe Left", "Swipe LeftUp", "Swipe LeftDown", "Pinch In" } }
    \cup { << "Swipe Up", 30, << "xdotool", SP, "key", SP, "z" >> >>,
           << "Swipe LeftDown", 3, << "xdotool", SP, "key", SP, "z" >> >> }

DefaultsPool ==
  { << >>, PinchIn2 \o << NL, "#" >> }

\* -------------------------------------------------- the engine, op by op
Init ==
  /\ conf \in InitFiles
  /\ old = NoFile
  /\ rows = << >>
  /\ call = NoCall
  /\ nops = 0
  /\ app = "off"
  /\ ed = Closed

\* normalize_whitespace(): resub_config()
Normalize ==
  /\ nops < MaxOps
  /\ conf' = resub_config(conf)
  /\ call' = Call("resub_config", conf, <<>>, 0, <<>>, <<>>, "")
  /\ nops' = nops + 1
  /\ UNCHANGED << old, rows, app, ed >>

\* validate_and_repair(): fix_config()
Repair ==
  /\ nops < MaxOps
  /\ LET r == fix_config(conf)
     IN /\ conf' = r.conf
        /\ call' = Call("fix_config", conf, <<>>, 0, <<>>, <<>>,
                        IF r.raised THEN "fix_config" ELSE "")
  /\ nops' = nops + 1
  /\ UNCHANGED << old, rows, app, ed >>

\* install_defaults(defaultsText): write_defaults(defaults)
InstallDefaults(defaults) ==
  /\ nops < MaxOps
  /\ LET r == write_defaults(conf, defaults)
     IN /\ conf' = r.conf
        /\ old' = r.old
        /\ call' = Call("write_defaults", conf, <<>>, 0, defaults, r.ret, "")
  /\ nops' = nops + 1
  /\ UNCHANGED << rows, app, ed >>

\* upsert(gestureAction, fingerCount, payload): save_changes, lines 726-732
Upsert(action, fingers, shortcut) ==
  /\ nops < MaxOps
  /\ Len(read_config(save_changes_conf(conf, action, fingers, shortcut))) <= MaxLines
  /\ conf' = save_changes_conf(conf, action, fingers, shortcut)
  /\ call' = Call("save_changes", conf, action, fingers, shortcut, <<>>, "")
  /\ nops' = nops + 1
  /\ UNCHANGED << old, rows, app, ed >>

\* delete(canonicalKey) for the key of a binding parse_for_display() returns:
\* delete_entry, lines 594-599, with the accessible name of a Delete button
Delete ==
  /\ nops < MaxOps
  /\ LET p == prepare_config_for_displaying(conf)
     IN /\ ~p.raised
        /\ \E i \in 1..Len(p.rows) :
             /\ conf' = delete_entry_conf(conf, p.rows[i].button)
             /\ call' = Call("delete_entry", conf, <<>>, 0, p.rows[i].button, <<>>, "")
  /\ nops' = nops + 1
  /\ UNCHANGED << old, rows, app, ed >>

\* parse_for_display() and sort_for_display():
\* prepare_config_for_displaying() then sort_config()
Display ==
  /\ nops < MaxOps
  /\ LET p == prepare_config_for_displaying(conf)
     IN /\ rows' = IF p.raised THEN << >> ELSE sort_config(p.rows)
        /\ call' = Call("display", conf, <<>>, 0, <<>>, <<>>,
                        IF p.raised THEN "prepare_config_for_displaying" ELSE "")
  /\ nops' = nops + 1
  /\ UNCHANGED << conf, old, app, ed >>

Next ==
  \/ Normalize
  \/ Repair
  \/ \E d \in DefaultsPool : InstallDefaults(d)
  \/ \E in \in UpsertInputs : Upsert(actions_mapping[in[1]], in[2], in[3])
  \/ Delete
  \/ Display

Spec == Init /\ [][Next]_vars

\* ======================================================================
\* Claims about the engine, checked under Spec.
\* ======================================================================

\* The composite key of a line, read by whitespace tokenization: the tokens
\* after 'gesture' (type, direction, finger count); << >> for any other line.
GestureKey(line) ==
  LET t == Split(line)
  IN IF Len(t) >= 4 /\ t[1] = gestureTok THEN << t[2], t[3], t[4] >> ELSE << >>

\* C1: after an upsert the file holds exactly one gesture line with the
\* upserted key (type, direction, finger count); it is the last line of the
\* file and it is the line just written, with the latest payload.
C1_UpsertLeavesOneBinding ==
  call.op = "save_changes" =>
    LET lines == read_config(conf)
        written == SaveLine(call.action, call.fingers, call.text)
        key == GestureKey(written)
        hits == { i \in 1..Len(lines) : GestureKey(lines[i]) = key }
    IN hits = { Len(lines) } /\ lines[Len(lines)] = written

\* The lines the repair rules retain, rule by rule.
Retained(line) ==
  LET t == Split(line)
      n == Len(t)
  IN \/ line[1] = "#"
     \/ line = << NL >>
     \/ n = 2 /\ t[1] \in { deviceTok, thresholdTok }
     \/ n = 7 /\ t[1] = gestureTok /\ t[5] = xdotoolTok /\ t[6] = keyTok
     \/ n >= 5 /\ t[1] = gestureTok /\ t[5] # xdotoolTok
          /\ Contains(t[5], "qdbus") /\ t[n][Len(t[n])] = QUOTE
     \/ n >= 5 /\ t[1] = gestureTok /\ t[5] # xdotoolTok
          /\ ~Contains(t[5], "qdbus")

C4_RepairCompletes ==
  call.op = "fix_config" => (call.raised = "" /\ conf.exists)

\* C5: after install_defaults(defaultsText) the backup holds the content the
\* config file held before the call (empty when there was no file), the
\* config file holds defaultsText, and defaultsText is returned.
C5_DefaultsBackUp ==
  call.op = "write_defaults" =>
    /\ old = File(IF call.prev.exists THEN call.prev.text ELSE << >>)
    /\ conf = File(call.text)
    /\ call.ret = call.text

\* A second call in a row: the backup holds the defaults of the first call.
C5_Witness ==
  /\ call.op = "write_defaults" /\ nops = 2
  /\ old.text = PinchIn2 \o << NL, "#" >>
  /\ conf.text = << >>

\* int(s) for a str of digits.
IsNumber(s) == s # << >> /\ \A i \in 1..Len(s) : \E d \in 1..10 : Digits[d] = s[i]

RECURSIVE ToInt(_)
ToInt(s) ==
  IF s = << >> THEN 0
  ELSE 10 * ToInt(SubSeq(s, 1, Len(s) - 1))
         + (CHOOSE d \in 0..9 : Digits[d + 1] = s[Len(s)])

\* C8: the bindings displayed are in ascending order of (label, finger
\* count, ...), finger counts compared as integers: of two bindings with
\* the same label, the one with the smaller finger count comes first.
C8_SortedByFingersAsIntegers ==
  (call.op = "display" /\ call.raised = "") =>
    \A i, j \in 1..Len(rows) :
      (i < j /\ rows[i].gesture = rows[j].gesture
         /\ IsNumber(rows[i].fingers) /\ IsNumber(rows[j].fingers))
        => ToInt(rows[i].fingers) <= ToInt(rows[j].fingers)

\* C9: normalize_whitespace() is idempotent: run again on the file it
\* wrote, it writes the same file.
C9_NormalizeIdempotent ==
  call.op = "resub_config" => resub_config(conf) = conf

C9_Witness ==
  /\ call.op = "resub_config"
  /\ Contains(call.prev.text, TAB)
  /\ conf.text # call.prev.text

\* Whether a line is a binding that names a known gesture, has an action,
\* and whose first token of the action contains 'qdbus'.
IsQdbusLine(line) ==
  LET splitted == Split(line)
  IN /\ StartsWith(line, gestureTok)
     /\ Len(splitted) >= 5
     /\ Join(SubSeq(splitted, 1, 3), << SP >>) \in DOMAIN reversed_mapping
     /\ Contains(splitted[5], "qdbus")

\* C13: a binding whose first token of the action contains 'qdbus' is
\* displayed as a Plasma action whose shortcut is the first double-quoted
\* substring of the line, or, when the line has none, the last token with
\* the quote characters stripped; displaying does not fail on such a line.
C13_QdbusDecodedAsPlasmaAction ==
  call.op = "display" =>
    LET lines == read_config(call.prev)
        gestures == SelectSeq(lines, LAMBDA line : StartsWith(line, gestureTok))
    IN (\A i \in 1..Len(gestures) :
          IsQdbusLine(gestures[i]) \/ ~ParseLine(gestures[i]).raised)
         => /\ call.raised = ""
            /\ \A i \in 1..Len(gestures) :
                 IsQdbusLine(gestures[i]) =>
                   LET splitted == Split(gestures[i])
                       found == FindQuoted(gestures[i])
                   IN \E j \in 1..Len(rows) :
                        /\ rows[j].button = Join(SubSeq(splitted, 1, 4), << SP >>)
                        /\ rows[j].action = "Plasma action"
                        /\ rows[j].shortcut =
                             IF found # << >> THEN found[1]
                             ELSE Remove(splitted[Len(splitted)], QUOTE)

\* The lines that are not bindings of the key (type, direction, fingers).
OtherThan(lines, key) == SelectSeq(lines, LAMBDA line : GestureKey(line) # key)

\* C15: save_changes and delete_entry touch the binding aimed at only: the
\* lines of the file that are not bindings of its key (its type, direction
\* and number of fingers) stand in the file written, unchanged and in the
\* order they had; so does 'gesture swipe up 30 ...' when the key is
\* swipe up 3.
C15_OtherLinesUntouched ==
  call.op \in { "save_changes", "delete_entry" } =>
    LET key == GestureKey(IF call.op = "delete_entry" THEN call.text
                          ELSE SaveLine(call.action, call.fingers, call.text))
        before == read_config(call.prev)
        after == read_config(conf)
        kept == IF call.op = "delete_entry" THEN after
                ELSE SubSeq(after, 1, Len(after) - 1)
    IN OtherThan(kept, key) = OtherThan(before, key)

\* ======================================================================
\* find_key_combo: a key sequence of Qt as a key combination of xdotool.
\* ======================================================================

\* s.split(sep) for a one-character sep: the segments between the seps.
RECURSIVE SplitOnFrom(_, _, _)
SplitOnFrom(s, sep, i) ==
  LET n == IndexFrom(s, sep, i)
  IN IF n = 0 THEN << SubSeq(s, i, Len(s)) >>
     ELSE << SubSeq(s, i, n - 1) >> \o SplitOnFrom(s, sep, n + 1)

SplitOn(s, sep) == SplitOnFrom(s, sep, 1)

\* str.lower() on the symbols that hold an upper-case letter.
LowerCase ==
  ("Alt" :> "alt") @@ ("Ctrl" :> "ctrl") @@ ("Down" :> "down") @@
  ("F" :> "f") @@ ("Left" :> "left") @@ ("Meta" :> "meta") @@
  ("PgDown" :> "pgdown") @@ ("PgUp" :> "pgup") @@ ("Q" :> "q") @@
  ("Right" :> "right") @@ ("Shift" :> "shift") @@ ("Up" :> "up")

\* qt_key.lower()
Lower(s) ==
  [i \in 1..Len(s) |-> IF s[i] \in DOMAIN LowerCase THEN LowerCase[s[i]] ELSE s[i]]

\* keys_mapping
keys_mapping ==
  (<< "meta" >> :> << "super" >>) @@
  (<< "pgdown" >> :> << "Page_Down" >>) @@
  (<< "pgup" >> :> << "Page_Up" >>) @@
  (<< "right" >> :> << "Right" >>) @@
  (<< "left" >> :> << "Left" >>) @@
  (<< "up" >> :> << "Up" >>) @@
  (<< "down" >> :> << "Down" >>) @@
  (<< "f", "1" >> :> << "F", "1" >>) @@
  (<< "f", "2" >> :> << "F", "2" >>) @@
  (<< "f", "3" >> :> << "F", "3" >>) @@
  (<< "f", "4" >> :> << "F", "4" >>) @@
  (<< "f", "5" >> :> << "F", "5" >>) @@
  (<< "f", "6" >> :> << "F", "6" >>) @@
  (<< "f", "7" >> :> << "F", "7" >>) @@
  (<< "f", "8" >> :> << "F", "8" >>) @@
  (<< "f", "9" >> :> << "F", "9" >>) @@
  (<< "f", "1", "0" >> :> << "F", "1", "0" >>) @@
  (<< "f", "1", "1" >> :> << "F", "1", "1" >>) @@
  (<< "f", "1", "2" >> :> << "F", "1", "2" >>)

\* The loop body with the segment looked up as it is typed.
KeyNameAsTyped(qt_key) ==
  IF qt_key \in DOMAIN keys_mapping THEN keys_mapping[qt_key] ELSE Lower(qt_key)

\* The loop body of find_key_combo for one segment.
KeyName(qt_key) ==
  LET lowered_key == Lower(qt_key)
  IN IF lowered_key \in DOMAIN keys_mapping
     THEN keys_mapping[lowered_key] ELSE lowered_key

\* find_key_combo(qt_key_combo)
find_key_combo(qt_key_combo) ==
  LET keys == SplitOn(qt_key_combo, "+")
  IN Join([i \in 1..Len(keys) |-> KeyName(keys[i])], << "+" >>)

\* ======================================================================
\* The two windows: GesturesApp (main window) and EditGestures.
\* ======================================================================

\* get_qdbus_name(): 'qdbus' on the machine modelled.
QDBUS_NAME == << "qdbus" >>

\* QDBUS_NAME + ' org.kde.kglobalaccel /component/kwin invokeShortcut "<sh>"'
PlasmaShortcut(sh) ==
  QDBUS_NAME \o << SP, "org.kde.kglobalaccel", SP, "/component/kwin", SP,
                   "in", "vokeShortcut", SP, QUOTE >> \o sh \o << QUOTE >>

KdeGesture(direction, fingers, gap, shortcut) ==
  << "gesture", SP, "swipe", SP, direction, SP, fingers >> \o gap \o shortcut
    \o << NL >>

\* kde_defaults.format(qdbus=self.QDBUS_NAME)
kde_defaults ==
  Concat(<<
    << NL >>,
    << "#", "This default settings for KDE Plasma generated by libinput-gestures-qt", NL >>,
    << "#", NL >>,
    << "#", "Browser actions Back and Forward", NL >>,
    KdeGesture("left", "3", << SP >>, << "xdotool", SP, "key", SP, "alt", "+", "Right" >>),
    KdeGesture("right", "3", << SP >>, << "xdotool", SP, "key", SP, "alt", "+", "Left" >>),
    << "#", NL >>,
    << "#", "Present Windows", NL >>,
    KdeGesture("down", "3", << SP >>, PlasmaShortcut(<< "Expose" >>)),
    << "#", NL >>,
    << "#", "Desktop Grid", NL >>,
    KdeGesture("up", "3", << SP, SP >>, PlasmaShortcut(<< "ShowDesktopGrid" >>)),
    << "#", NL >>,
    << "#", "Minimize", NL >>,
    KdeGesture("down", "4", << SP >>, PlasmaShortcut(<< "Window", SP, "Minimize" >>)),
    << "#", NL >>,
    << "#", "Maximize", NL >>,
    KdeGesture("up", "4", << SP >>, PlasmaShortcut(<< "Window", SP, "Maximize" >>)),
    << "#", NL >>,
    << "#", "Next virtual desktop", NL >>,
    KdeGesture("left", "4", << SP >>,
               PlasmaShortcut(<< "Switch", SP, "to", SP, "Next", SP, "Desktop" >>)),
    << "#", "Previous virtual desktop", NL >>,
    KdeGesture("right", "4", << SP >>,
               PlasmaShortcut(<< "Switch", SP, "to", SP, "Previous", SP, "Desktop" >>))
  >>)

\* --------------------------------------------------------- display_config
\* What display_config leaves: the file, the lists shown, the process
\* ("running", "exited" by sys.exit, "crashed" by an exception nobody
\* catches), the function that raised, and whether the try raised, the
\* reply to 'Fix it?' and whether fix_config was called.
Displayed(c, shown, state, raised, failed, reply, fix) ==
  [conf |-> c, rows |-> shown, state |-> state, raised |-> raised,
   failed |-> failed, reply |-> reply, fix |-> fix]

\* display_config that repairs without asking.
display_config_unasked(c, reply) ==
  LET p == prepare_config_for_displaying(c)
      r == fix_config(c)
      p2 == prepare_config_for_displaying(r.conf)
  IN IF ~p.raised
       THEN Displayed(c, sort_config(p.rows), "running", "", FALSE, "", << >>)
     ELSE IF r.raised
       THEN Displayed(c, << >>, "crashed", "fix_config", TRUE, reply,
                      << "display_config" >>)
     ELSE IF p2.raised
       THEN Displayed(r.conf, << >>, "crashed", "prepare_config_for_displaying",
                      TRUE, reply, << "display_config" >>)
     ELSE Displayed(r.conf, sort_config(p2.rows), "running", "", TRUE, reply,
                    << "display_config" >>)

\* display_config(): try prepare_config_for_displaying(); on an exception
\* ask 'Fix it?': Yes, fix_config() and prepare_config_for_displaying()
\* again, outside any try; No, sys.exit().  Then sort_config().
display_config(c, reply) ==
  LET p == prepare_config_for_displaying(c)
      r == fix_config(c)
      p2 == prepare_config_for_displaying(r.conf)
  IN IF ~p.raised
       THEN Displayed(c, sort_config(p.rows), "running", "", FALSE, "", << >>)
     ELSE IF reply # "Yes"
       THEN Displayed(c, << >>, "exited", "", TRUE, reply, << >>)
     ELSE IF r.raised
       THEN Displayed(c, << >>, "crashed", "fix_config", TRUE, reply,
                      << "display_config" >>)
     ELSE IF p2.raised
       THEN Displayed(r.conf, << >>, "crashed", "prepare_config_for_displaying",
                      TRUE, reply, << "display_config" >>)
     ELSE Displayed(r.conf, sort_config(p2.rows), "running", "", TRUE, reply,
                    << "display_config" >>)

\* The record of a handler that ended in display_config with outcome d.
Handled(op, text, answer, fixBefore, d) ==
  [Call(op, conf, << >>, 0, text, << >>, d.raised) EXCEPT
     !.answer = answer, !.failed = d.failed, !.reply = d.reply,
     !.fix = fixBefore \o d.fix]

\* The record of a handler that changed nothing.
Unhandled(op, answer) ==
  [Call(op, conf, << >>, 0, << >>, << >>, "") EXCEPT !.answer = answer]

Replies == { "Yes", "No" }

\* ----------------------------------------------------------------- inputs
AppInitFiles ==
  { NoFile }
    \cup { File(Text(ls)) : ls \in
             { << KeyOk >>, << KeyMissing >>, << NoAction >>, << QdbusOneQuote >>,
               << BadDirection >>, << Tabbed, Up30 >>, << Comment, QdbusOk >> } }

\* Files the user may pick in the Import dialog.
ImportPool ==
  { Text(ls) : ls \in
      { << KeyOk, Spaces >>, << QdbusOneQuote >>, << KeyLong, Tabbed >>,
        << QdbusNoQuote, PinchIn2 >> } }

\* Items of actionMenu the user picks, values of fingersLine the user sets,
\* key sequences recorded (the cleared one is ''), text typed into
\* commandLine, items of plasmaActions picked.
AppLabels == { "Swipe Up", "Swipe LeftDown", "Pinch In" }
AppFingers == { 30 }
AppKeySequences == { << >>, << "Ctrl", "+", "Up" >> }
AppCommands == { << "e" >>, << SP >> }
AppPlasmaActions == { << "Window", SP, "Maximize" >> }
ShortcutKinds == { "Keyboard Shortcut", "Plasma action", "Command" }

\* ------------------------------------------------------------ GesturesApp
\* The handlers of the main window touch the file and the lists, those of
\* the editor touch the editor only, save_changes apart: one order of the
\* user's clicks in the two windows gives what any other gives, and the
\* order explored is the main window's clicks before the editor opens.
\* nops counts the handlers that rewrote the file; after MaxOps of them the
\* user clicks no more.
Idle == app = "running" /\ ~ed.open /\ nops < MaxOps

AppInit ==
  /\ conf \in AppInitFiles
  /\ old = NoFile
  /\ rows = << >>
  /\ call = NoCall
  /\ nops = 0
  /\ app = "off"
  /\ ed = Closed

\* GesturesApp.__init__: resub_config(), then display_config().
Startup(reply) ==
  /\ app = "off"
  /\ LET d == display_config(resub_config(conf), reply)
     IN /\ conf' = d.conf
        /\ rows' = d.rows
        /\ app' = d.state
        /\ call' = Handled("__init__", << >>, "", << >>, d)
  /\ UNCHANGED << old, nops, ed >>

\* refresh: display_config(refresh=True)
Refresh(reply) ==
  /\ Idle
  /\ LET d == display_config(conf, reply)
     IN /\ conf' = d.conf
        /\ rows' = d.rows
        /\ app' = d.state
        /\ call' = Handled("refresh", << >>, "", << >>, d)
  /\ UNCHANGED << old, nops, ed >>

\* set_KDE_default: on Yes, write_defaults(self.kde_defaults) and
\* display_config(refresh=True)
SetKDEDefault(answer, reply) ==
  /\ Idle
  /\ IF answer = "Yes"
     THEN /\ LET w == write_defaults(conf, kde_defaults)
                 d == display_config(w.conf, reply)
             IN /\ conf' = d.conf
                /\ old' = w.old
                /\ rows' = d.rows
                /\ app' = d.state
                /\ call' = Handled("set_KDE_default", kde_defaults, answer, << >>, d)
          /\ nops' = nops + 1
     ELSE /\ call' = Unhandled("set_KDE_default", answer)
          /\ UNCHANGED << conf, old, rows, app, nops >>
  /\ UNCHANGED ed

\* import_config with a file chosen: write_config(imported_config),
\* resub_config(), fix_config(), display_config(refresh=True); only
\* FileNotFoundError is caught.
ImportConfig(imported, reply) ==
  /\ Idle
  /\ LET written == resub_config(write_config(ReadLines(imported)))
         r == fix_config(written)
         d == display_config(r.conf, reply)
     IN IF r.raised
        THEN /\ conf' = written
             /\ rows' = rows
             /\ app' = "crashed"
             /\ call' = [Call("import_config", conf, << >>, 0, imported, << >>,
                              "fix_config")
                           EXCEPT !.fix = << "import_config" >>]
        ELSE /\ conf' = d.conf
             /\ rows' = d.rows
             /\ app' = d.state
             /\ call' = Handled("import_config", imported, "", << "import_config" >>, d)
  /\ nops' = nops + 1
  /\ UNCHANGED << old, ed >>

\* import_config with the dialog closed: open('') raises FileNotFoundError.
ImportCancelled ==
  /\ Idle
  /\ call' = Unhandled("import_config", "")
  /\ UNCHANGED << conf, old, rows, nops, app, ed >>

\* delete_entry for the i-th Delete button: on Yes, the lines starting with
\* the button's accessible name are removed, then display_config(refresh=True)
DeleteEntry(i, answer, reply) ==
  /\ Idle
  /\ i \in 1..Len(rows)
  /\ IF answer = "Yes"
     THEN /\ LET d == display_config(delete_entry_conf(conf, rows[i].button), reply)
             IN /\ conf' = d.conf
                /\ rows' = d.rows
                /\ app' = d.state
                /\ call' = Handled("delete_entry", rows[i].button, answer, << >>, d)
          /\ nops' = nops + 1
     ELSE /\ call' = Unhandled("delete_entry", answer)
          /\ UNCHANGED << conf, rows, app, nops >>
  /\ UNCHANGED << old, ed >>

\* ----------------------------------------------------------- EditGestures
\* start_adding: EditGestures.__init__.  One editor at a time is modelled,
\* and none is opened on a file longer than MaxLines.
\* EditGestures.__init__: the attributes and widgets of a new editor.
Opened ==
  Editor(TRUE, "", Phrase("swipe", << "up" >>), 3, << >>, 3, "Keyboard Shortcut")

StartAdding ==
  /\ Idle
  /\ Len(read_config(conf)) <= MaxLines
  /\ ed' = Opened
  /\ call' = Unhandled("start_adding", "")
  /\ UNCHANGED << conf, old, rows, nops, app >>

\* shortcut_command_or_qdbus: draw_shortcut, draw_plasma_actions or draw_command
ShortcutCommandOrQdbus(text) ==
  /\ app = "running"
  /\ ed.open
  /\ ed' = [ed EXCEPT
              !.kind = text,
              !.shortcut = IF text = "Plasma action"
                           THEN PlasmaShortcut(<< "Expose" >>) ELSE << >>]
  /\ call' = Unhandled("shortcut_command_or_qdbus", "")
  /\ UNCHANGED << conf, old, rows, nops, app >>

\* action_chosen: the minimum and the value of fingersLine (fingers_chosen
\* follows the value), then self.action = actions_mapping[text]
ActionChosen(text) ==
  /\ app = "running"
  /\ ed.open
  /\ LET least == IF text \in { "Pinch In", "Pinch Out", "Pinch Clockwise",
                                "Pinch Anticlockwise" } THEN 2 ELSE 3
     IN ed' = [ed EXCEPT !.label = text, !.action = actions_mapping[text],
                         !.minimum = least, !.fingers = least]
  /\ call' = Unhandled("action_chosen", "")
  /\ UNCHANGED << conf, old, rows, nops, app >>

\* fingers_chosen
FingersChosen(value) ==
  /\ app = "running"
  /\ ed.open
  /\ value >= ed.minimum
  /\ ed' = [ed EXCEPT !.fingers = value]
  /\ call' = Unhandled("fingers_chosen", "")
  /\ UNCHANGED << conf, old, rows, nops, app >>

\* shortcut_chosen: text is text.toString() of the key sequence recorded
ShortcutChosen(text) ==
  /\ app = "running"
  /\ ed.open
  /\ ed.kind = "Keyboard Shortcut"
  /\ LET shortcut == SplitOn(text, ",")[1]
     IN /\ ed' = [ed EXCEPT !.shortcut =
                     << "xdotool", SP, "key", SP >> \o find_key_combo(shortcut)]
        /\ call' = [Unhandled("shortcut_chosen", "")
                      EXCEPT !.text = shortcut, !.ret = find_key_combo(shortcut)]
  /\ UNCHANGED << conf, old, rows, nops, app >>

\* command_chosen
CommandChosen(text) ==
  /\ app = "running"
  /\ ed.open
  /\ ed.kind = "Command"
  /\ ed' = [ed EXCEPT !.shortcut = text]
  /\ call' = Unhandled("command_chosen", "")
  /\ UNCHANGED << conf, old, rows, nops, app >>

\* plasma_action_chosen
PlasmaActionChosen(text) ==
  /\ app = "running"
  /\ ed.open
  /\ ed.kind = "Plasma action"
  /\ ed' = [ed EXCEPT !.shortcut = PlasmaShortcut(text)]
  /\ call' = Unhandled("plasma_action_chosen", "")
  /\ UNCHANGED << conf, old, rows, nops, app >>

\* A form that asks for nothing but an action and a finger count.
FilledButShortcut(e) == e.action # << >> /\ e.fingers # 0

\* save_changes: self.action and self.fingers and self.shortcut
Filled(e) == e.action # << >> /\ e.fingers # 0 /\ e.shortcut # << >>

\* save_changes: with the three attributes set, the file is rewritten, the
\* message 'Success' is shown, the main window displays the file and the
\* editor closes; else the message 'Fail' is shown and nothing changes.
SaveChanges(reply) ==
  /\ app = "running"
  /\ ed.open
  /\ IF Filled(ed)
     THEN /\ nops < MaxOps
          /\ LET saved == save_changes_conf(conf, ed.action, ed.fingers, ed.shortcut)
                 d == display_config(saved, reply)
             IN /\ Len(read_config(saved)) <= MaxLines
                /\ conf' = d.conf
                /\ rows' = d.rows
                /\ app' = d.state
                /\ call' = [Handled("save_changes", ed.shortcut, "Success", << >>, d)
                              EXCEPT !.action = ed.action, !.fingers = ed.fingers]
          /\ nops' = nops + 1
          /\ ed' = Closed
     ELSE /\ call' = [Unhandled("save_changes", "Fail")
                        EXCEPT !.action = ed.action, !.fingers = ed.fingers,
                               !.text = ed.shortcut]
          /\ UNCHANGED << conf, rows, app, nops, ed >>
  /\ UNCHANGED old

AppNext ==
  \/ \E reply \in Replies : Startup(reply)
  \/ \E reply \in Replies : Refresh(reply)
  \/ \E answer \in Replies, reply \in Replies : SetKDEDefault(answer, reply)
  \/ \E imported \in ImportPool, reply \in Replies : ImportConfig(imported, reply)
  \/ ImportCancelled
  \/ \E i \in 1..MaxLines, answer \in Replies, reply \in Replies :
       DeleteEntry(i, answer, reply)
  \/ StartAdding
  \/ \E text \in ShortcutKinds : ShortcutCommandOrQdbus(text)
  \/ \E text \in AppLabels : ActionChosen(text)
  \/ \E value \in AppFingers : FingersChosen(value)
  \/ \E text \in AppKeySequences : ShortcutChosen(text)
  \/ \E text \in AppCommands : CommandChosen(text)
  \/ \E text \in AppPlasmaActions : PlasmaActionChosen(text)
  \/ \E reply \in Replies : SaveChanges(reply)

AppSpec == AppInit /\ [][AppNext]_vars

\* ======================================================================
\* Claims about the application.
\* ======================================================================

\* C3: when prepare_config_for_displaying() has failed and the user has
\* answered Yes, fix_config() having returned, the second
\* prepare_config_for_displaying() of display_config does not fail.
C3_RetryNeverFails ==
  (call.failed /\ call.reply = "Yes" /\ call.raised # "fix_config")
    => call.raised = ""

\* C6: as stated, every run of fix_config() is the one of display_config,
\* after prepare_config_for_displaying() failed and the user answered Yes.
C6_RepairOnlyOnRequest ==
  \A i \in 1..Len(call.fix) :
    call.fix[i] = "display_config" /\ call.failed /\ call.reply = "Yes"

\* C6: fix_config() runs only in display_config after
\* prepare_config_for_displaying() failed and the user answered Yes, or as
\* a step of import_config; startup, refresh, save, delete and the KDE
\* defaults run it in no other way.
C6_RepairOnlyOnRequestOrImport ==
  \A i \in 1..Len(call.fix) :
    \/ call.fix[i] = "import_config" /\ call.op = "import_config"
    \/ call.fix[i] = "display_config" /\ call.failed /\ call.reply = "Yes"

\* An import whose file fails to parse and is repaired again on request.
C6_Witness ==
  /\ call.op = "import_config"
  /\ call.fix = << "import_config", "display_config" >>
  /\ call.failed
  /\ call.reply = "Yes"

\* C7: actions_mapping and reversed_mapping are mutual inverses: the label
\* chosen in the editor maps to a phrase that reversed_mapping maps back to
\* that label, and the phrase of every binding displayed, mapped to its
\* label by reversed_mapping, is the phrase actions_mapping gives that label.
C7_MappingsMutualInverses ==
  /\ ed.label # "" =>
       /\ ed.action \in DOMAIN reversed_mapping
       /\ reversed_mapping[ed.action] = ed.label
  /\ \A i \in 1..Len(rows) :
       rows[i].button = actions_mapping[rows[i].gesture] \o << SP >> \o rows[i].fingers

\* C10: after delete_entry, confirmed, for the Delete button of a displayed
\* binding, the file displayed again holds no binding with that button's
\* key 'gesture <type> <direction> <fingers>'.
C10_DeleteRemovesBinding ==
  (call.op = "delete_entry" /\ call.answer = "Yes" /\ app = "running")
    => \A i \in 1..Len(rows) : rows[i].button # call.text

\* C11: the file is rewritten by save_changes only with an action, a finger
\* count and a payload that are all set; a save requested with any of the
\* three missing is answered 'Fail' and leaves the file as it was.
C11_SaveNeedsAllThree ==
  call.op = "save_changes" =>
    LET missing == call.action = << >> \/ call.fingers = 0 \/ call.text = << >>
    IN /\ call.answer = "Success" => ~missing
       /\ missing => (call.answer = "Fail" /\ conf = call.prev)

\* A save refused for its empty payload, on a file that holds a binding.
C11_Witness ==
  /\ call.op = "save_changes" /\ call.answer = "Fail"
  /\ call.text = << >> /\ call.action # << >>
  /\ conf.text # << >>

\* ======================================================================
\* The key sequence widget alone: an editor that records key sequences.
\* ======================================================================

\* The most keys a recorded combination holds.
MaxKeys == 3

\* Names QKeySequence.toString() gives to keys.
KeyNames == { << "Ctrl" >>, << "Meta" >>, << "Alt" >>, << "PgDown" >>, << "Q" >> }

\* Combinations of 1..MaxKeys names.
Combos ==
  UNION { { Join(ks, << "+" >>) : ks \in [1..n -> KeyNames] } : n \in 1..MaxKeys }

\* Key sequences recorded: a combination, the cleared sequence, the key '+'
\* itself, keys of the other rows of keys_mapping, and two combinations,
\* which toString() separates by ', '.
KeySequences ==
  Combos \cup
    { << >>,
      << "Ctrl", "+", "+" >>,
      << "Up" >>,
      << "Shift", "+", "F", "1", "2" >>,
      << "Meta", "+", "Left" >>,
      << "Alt", "+", "F", "1" >>,
      << "Ctrl", "+", "PgUp", ",", SP, "Alt", "+", "Q" >>,
      << "Meta", "+", "Right", ",", SP, "Ctrl", "+", "Down" >> }

KeyInit ==
  /\ conf = File(<< >>)
  /\ old = NoFile
  /\ rows = << >>
  /\ call = NoCall
  /\ nops = 0
  /\ app = "running"
  /\ ed = Opened

KeyNext == \E text \in KeySequences : ShortcutChosen(text)

KeySpec == KeyInit /\ [][KeyNext]_vars

\* C12: find_key_combo answers for every key combination, segment by
\* segment: the answer has as many '+'-separated segments as the
\* combination, and each is the entry of keys_mapping for the lower-cased
\* segment when there is one, the lower-cased segment otherwise;
\* 'Ctrl+Meta+PgDown' gives 'ctrl+super+Page_Down' and 'Alt+Q' gives 'alt+q'.
C12_TranslatesSegmentBySegment ==
  call.op = "shortcut_chosen" =>
    LET given == SplitOn(call.text, "+")
        got == SplitOn(call.ret, "+")
    IN /\ Len(got) = Len(given)
       /\ \A i \in 1..Len(given) :
            LET low == Lower(given[i])
            IN got[i] = IF low \in DOMAIN keys_mapping THEN keys_mapping[low] ELSE low
       /\ call.text = << "Ctrl", "+", "Meta", "+", "PgDown" >>
            => call.ret = << "ctrl", "+", "super", "+", "Page_Down" >>
       /\ call.text = << "Alt", "+", "Q" >> => call.ret = << "alt", "+", "q" >>
       /\ ed.shortcut = << "xdotool", SP, "key", SP >> \o call.ret

C12_Witness ==
  /\ call.op = "shortcut_chosen"
  /\ call.text = << "Ctrl", "+", "Meta", "+", "PgDown" >>
  /\ call.ret = << "ctrl", "+", "super", "+", "Page_Down" >>

\* What save_changes was given for the binding a displayed entry shows.
PayloadOf(row) ==
  IF row.action = "Keyboard shortcut"
    THEN << "xdotool", SP, "key", SP >> \o row.shortcut
  ELSE IF row.action = "Plasma action" THEN PlasmaShortcut(row.shortcut)
  ELSE row.shortcut

\* C14: when the file could be read for displaying before a save the editor
\* accepts, it can be read for displaying after it, and the entries
\* displayed hold the binding saved: its gesture, its fingers and its
\* keyboard shortcut, Plasma action or command.
C14_SaveKeepsConfigReadable ==
  (/\ call.op = "save_changes" /\ call.answer = "Success"
   /\ ~prepare_config_for_displaying(call.prev).raised)
    => /\ ~call.failed
       /\ \E j \in 1..Len(rows) :
            /\ actions_mapping[rows[j].gesture] = call.action
            /\ rows[j].fingers = Str(call.fingers)
            /\ PayloadOf(rows[j]) = call.text
=============================================================================
